---- MODULE Spec2Model ----
(***************************************************************************)
(* The tablet peer of src/tablet/tablet_peer.cc: its lifecycle (Init,      *)
(* Start, Shutdown), the three Submit* entry points, and the split-phase   *)
(* transaction pipeline (prepare, replicate, apply) they start.            *)
(*                                                                         *)
(* tablet_peer.cc is the only file of the repository at hand.  The leader  *)
(* transactions, the TaskExecutor pools, the consensus module and the      *)
(* tablet metadata are modelled from the design document (spec.md); those  *)
(* definitions are marked as such where they are introduced.               *)
(***************************************************************************)
EXTENDS Integers, Sequences, FiniteSets, TLC

(***************************************************************************)
(* Bounds                                                                  *)
(***************************************************************************)
\* Number of transactions the client threads may construct in one behaviour.
MaxOps == 2

\* Number of calls of the peer's entry points (Init, Start, Shutdown, Submit*)
\* the client threads make in one behaviour.
MaxCalls == 4

\* sysconf(_SC_NPROCESSORS_CONF): the number of apply workers (any value > 0).
NCpus == 2

\* Client threads calling into the peer concurrently.
Clients == {"c1", "c2"}

Ops == 1..MaxOps

\* The effective configuration consensus hands back from Start.  The peer
\* stores and flushes it without looking into it, so one value stands for
\* any configuration.
Configs == {"effective"}

(***************************************************************************)
(* Values                                                                  *)
(***************************************************************************)
BOOTSTRAPPING == "BOOTSTRAPPING"
CONFIGURING == "CONFIGURING"
RUNNING == "RUNNING"
SHUTDOWN == "SHUTDOWN"

TabletStates == {BOOTSTRAPPING, CONFIGURING, RUNNING, SHUTDOWN}

Write == "Write"
AlterSchema == "AlterSchema"
ChangeConfig == "ChangeConfig"

Kinds == {Write, AlterSchema, ChangeConfig}

\* A lock nobody holds.
Free == "free"

\* The owner name of a transaction holding the configuration lock.
Txn(o) == ToString(o)

\* prepare_executor_ is created with one thread (prepare must be done in
\* order of submission).
TwoPrepareThreads == 1 + 1
PrepareThreads == 1

\* The ordering lock each Submit* hands to the transaction it constructs:
\* all three pass prepare_replicate_lock_.
SeparateChangeConfigLock(k) == IF k = ChangeConfig THEN "change_config_lock" ELSE "prepare_replicate_lock_"
OrderingLockOf(k) == "prepare_replicate_lock_"

OrderingLocks == {OrderingLockOf(k) : k \in Kinds}

\* SubmitWrite / SubmitAlterSchema: if (state_ != RUNNING) return IllegalState.
RejectsOnlyBootstrapping(s) == s = BOOTSTRAPPING
NotRunning(s) == s # RUNNING

\* Shutdown: a failed consensus_->Shutdown() is logged and nothing else.
StopsOnConsensusError(s) == s = "OK"
ShutdownProceeds(s) == TRUE

\* Start: RETURN_NOT_OK(tablet_->metadata()->Flush()).
IgnoresFlushError(flush) == TRUE
FlushAllowsRunning(flush) == flush = "OK"

\* Start: boost::lock_guard<boost::mutex> config_lock(config_lock_) is taken
\* first and blocks while another holder has it.
StartWithoutConfigLock(owner) == TRUE
StartMayEnter(owner) == owner = Free

VARIABLES
  \* ---- TabletPeer members
  state_,                 \* metadata state enum
  tablet_,                \* TRUE when a non-null tablet is attached
  log_,                   \* TRUE when a non-null log is attached
  consensus_,             \* "null", or the status of the consensus object
  internal_state_lock_,   \* owner of the state spinlock
  config_lock_,           \* owner of the configuration mutex
  ordering_lock,          \* owner of each prepare/replicate ordering lock
  \* ---- collaborators
  wired,                  \* tablet_->SetConsensus has been called
  metaQuorum,             \* quorum in the in-memory tablet metadata
  flushedQuorum,          \* quorum of the last successful metadata Flush
  warned,                 \* "Consensus shutdown failed" has been logged
  prepAccepting,          \* prepare pool accepts submissions
  prepq,                  \* prepare pool FIFO of submitted units
  applyAccepting,         \* apply pool accepts submissions
  applyq,                 \* apply pool FIFO of submitted units
  \* ---- transactions
  nextOp,                 \* number of transactions constructed so far
  kind,                   \* kind of each transaction
  phase,                  \* where each transaction is in the pipeline
  result,                 \* the result slot of each transaction
  refused,                \* transactions consensus refused to admit
  \* ---- client threads
  pc,                     \* position of each client thread
  ret,                    \* Status the thread's last call returned
  call,                   \* the entry point the thread is in
  actual_config,          \* Start's local: the effective configuration
  s,                      \* Shutdown's local: Status of consensus_->Shutdown()
  transaction,            \* Submit*'s local: the transaction constructed
  \* ---- history
  events,                 \* what each transaction has gone through, in order
  prepSubmitOrder,        \* order of submission to the prepare pool
  replq,                  \* order of admission to the replication module
  prepareOrder,           \* order in which prepare phases began
  replicateOrder,         \* order in which replicate phases began
  returnOrder,            \* order in which accepted Submit* calls returned
  shutdownDone,           \* some Shutdown call has returned
  calls,                  \* number of entry-point calls made so far
  crashed                 \* the process died (null dereference / DCHECK)

peerVars == <<state_, tablet_, log_, consensus_>>
lockVars == <<internal_state_lock_, config_lock_, ordering_lock>>
collabVars == <<wired, metaQuorum, flushedQuorum, warned>>
poolVars == <<prepAccepting, prepq, applyAccepting, applyq>>
opVars == <<nextOp, kind, phase, result, refused>>
locals == <<call, actual_config, s, transaction>>
orderVars == <<prepSubmitOrder, replq, prepareOrder, replicateOrder, returnOrder>>
histVars == <<events, orderVars, shutdownDone>>

vars == <<peerVars, lockVars, collabVars, poolVars, opVars, pc, ret, locals, histVars, calls, crashed>>

(***************************************************************************)
(* Helpers                                                                 *)
(***************************************************************************)
InSeq(x, sq) == \E i \in 1..Len(sq) : sq[i] = x

Pos(x, sq) == CHOOSE i \in 1..Len(sq) : sq[i] = x

\* x occurs before y in sq (both occur).
Before(x, y, sq) == InSeq(x, sq) /\ InSeq(y, sq) /\ Pos(x, sq) < Pos(y, sq)

Occurrences(x, sq) == Cardinality({i \in 1..Len(sq) : sq[i] = x})

\* Phases in which a transaction occupies a worker of the prepare pool.
OnPrepareWorker == {"taken", "preparing"}

\* Phases of a transaction that still has a unit of work to run or to be
\* scheduled.
InFlight == {"queued", "taken", "preparing", "prepared", "replicating", "applyQueued", "applying"}

\* Terminal outcomes of a transaction.
Terminal == {"completed", "aborted"}

Goto(c, label) == pc' = [pc EXCEPT ![c] = label]

\* The thread enters the entry point `entry`.
Enter(c, entry) ==
  /\ pc[c] = "idle"
  /\ calls < MaxCalls
  /\ calls' = calls + 1
  /\ call' = [call EXCEPT ![c] = entry]
  /\ ret' = [ret EXCEPT ![c] = "none"]

\* The thread returns `status` from the call it is in; the call's locals
\* go out of scope.
Return(c, status) ==
  /\ pc' = [pc EXCEPT ![c] = "idle"]
  /\ ret' = [ret EXCEPT ![c] = status]
  /\ call' = [call EXCEPT ![c] = "none"]
  /\ actual_config' = [actual_config EXCEPT ![c] = "none"]
  /\ s' = [s EXCEPT ![c] = "none"]
  /\ transaction' = [transaction EXCEPT ![c] = 0]

\* A null pointer is dereferenced or a DCHECK fails: the process dies.
Crash ==
  /\ crashed' = TRUE
  /\ UNCHANGED <<peerVars, lockVars, collabVars, poolVars, opVars, pc, ret, locals, histVars, calls>>

(***************************************************************************)
(* TabletPeer::TabletPeer                                                  *)
(***************************************************************************)
Init ==
  /\ state_ = BOOTSTRAPPING
  /\ tablet_ = FALSE
  /\ log_ = FALSE
  /\ consensus_ = "null"
  /\ internal_state_lock_ = Free
  /\ config_lock_ = Free
  /\ ordering_lock = [l \in OrderingLocks |-> Free]
  /\ wired = FALSE
  /\ metaQuorum = "none"
  /\ flushedQuorum = "none"
  /\ warned = FALSE
  /\ prepAccepting = TRUE
  /\ prepq = <<>>
  /\ applyAccepting = TRUE
  /\ applyq = <<>>
  /\ nextOp = 0
  /\ kind = [o \in Ops |-> "none"]
  /\ phase = [o \in Ops |-> "none"]
  /\ result = [o \in Ops |-> "none"]
  /\ refused = {}
  /\ pc = [c \in Clients |-> "idle"]
  /\ ret = [c \in Clients |-> "none"]
  /\ call = [c \in Clients |-> "none"]
  /\ actual_config = [c \in Clients |-> "none"]
  /\ s = [c \in Clients |-> "none"]
  /\ transaction = [c \in Clients |-> 0]
  /\ events = [o \in Ops |-> <<>>]
  /\ prepSubmitOrder = <<>>
  /\ replq = <<>>
  /\ prepareOrder = <<>>
  /\ replicateOrder = <<>>
  /\ returnOrder = <<>>
  /\ shutdownDone = FALSE
  /\ calls = 0
  /\ crashed = FALSE

(***************************************************************************)
(* TabletPeer::Init                                                        *)
(***************************************************************************)
\* lock_guard<simple_spinlock> lock(internal_state_lock_)
InitAcquire(c) ==
  /\ ~crashed
  /\ Enter(c, "Init")
  /\ internal_state_lock_ = Free
  /\ internal_state_lock_' = c
  /\ Goto(c, "init_cs")
  /\ UNCHANGED <<peerVars, config_lock_, ordering_lock, collabVars, poolVars, opVars>>
  /\ UNCHANGED <<actual_config, s, transaction, histVars, crashed>>

\* The block under the state lock: state_ = CONFIGURING, the handles are
\* attached (tablet and log are TRUE when the caller passed a non-null
\* handle) and a new LocalConsensus is created.
InitAttach(c, tablet, log) ==
  /\ ~crashed
  /\ pc[c] = "init_cs"
  /\ tablet_' = tablet
  /\ log_' = log
  /\ state_' = CONFIGURING
  /\ consensus_' = "created"
  /\ internal_state_lock_' = Free
  /\ Goto(c, "init_consensus")
  /\ UNCHANGED <<config_lock_, ordering_lock, collabVars, poolVars, opVars>>
  /\ UNCHANGED <<ret, locals, histVars, calls, crashed>>

\* RETURN_NOT_OK(consensus_->Init(...)) comes before tablet_->SetConsensus:
\* the tablet is wired to consensus only when consensus Init returned OK.
WiresBeforeInitResult(status) == TRUE
WiresTablet(status) == status = "OK"

\* DCHECK(tablet_), DCHECK(log_), consensus_->Init, tablet_->SetConsensus.
\* A debug build dies on a failed DCHECK.  A release build compiles the
\* DCHECKs out and goes on with the null handle: consensus Init fails or
\* not, and SetConsensus on a null tablet is a null dereference.
InitConsensus(c) ==
  /\ ~crashed
  /\ pc[c] = "init_consensus"
  /\ \/ /\ ~tablet_ \/ ~log_
        /\ Crash
     \/ \E status \in {"OK", "ConsensusInitError"} :
          IF WiresTablet(status) /\ ~tablet_
            THEN Crash
            ELSE /\ consensus_' = IF status = "OK" /\ consensus_ = "created"
                                    THEN "initialized" ELSE consensus_
                 /\ wired' = (wired \/ WiresTablet(status))
                 /\ Return(c, status)
                 /\ UNCHANGED <<state_, tablet_, log_, lockVars, metaQuorum, flushedQuorum, warned>>
                 /\ UNCHANGED <<poolVars, opVars, histVars, calls, crashed>>

(***************************************************************************)
(* TabletPeer::Start                                                       *)
(***************************************************************************)
\* lock_guard<boost::mutex> config_lock(config_lock_)
StartAcquireConfig(c) ==
  /\ ~crashed
  /\ Enter(c, "Start")
  /\ StartMayEnter(config_lock_)
  /\ config_lock_' = IF config_lock_ = Free THEN c ELSE config_lock_
  /\ Goto(c, "start_consensus")
  /\ UNCHANGED <<peerVars, internal_state_lock_, ordering_lock, collabVars, poolVars, opVars>>
  /\ UNCHANGED <<actual_config, s, transaction, histVars, crashed>>

\* The configuration lock is released when Start returns, if this call holds it.
KeepsConfigLock(c) == UNCHANGED config_lock_
ReleaseConfig(c) ==
  config_lock_' = IF config_lock_ = c THEN Free ELSE config_lock_

\* RETURN_NOT_OK(consensus_->Start(quorum, &actual_config)): the effective
\* configuration is consensus's choice and may differ from the requested one.
StartConsensus(c) ==
  /\ ~crashed
  /\ pc[c] = "start_consensus"
  /\ \/ /\ consensus_ = "null"
        /\ Crash
     \/ /\ consensus_ # "null"
        /\ Return(c, "ConsensusStartError")
        /\ ReleaseConfig(c)
        /\ UNCHANGED <<peerVars, internal_state_lock_, ordering_lock, collabVars, poolVars, opVars>>
        /\ UNCHANGED <<histVars, calls, crashed>>
     \/ /\ consensus_ # "null"
        /\ \E q \in Configs : actual_config' = [actual_config EXCEPT ![c] = q]
        /\ consensus_' = IF consensus_ = "shutdown" THEN "shutdown" ELSE "started"
        /\ Goto(c, "start_persist")
        /\ UNCHANGED <<state_, tablet_, log_, lockVars, collabVars, poolVars, opVars>>
        /\ UNCHANGED <<ret, call, s, transaction, histVars, calls, crashed>>

\* SetQuorum(*actual_config) comes before Flush(): the quorum of the
\* in-memory metadata is the effective configuration whatever Flush returns.
SetsQuorumWhenFlushed(old, actual, flush) == IF flush = "OK" THEN actual ELSE old
QuorumInMemory(old, actual, flush) == actual

\* tablet_->metadata()->SetQuorum(*actual_config);
\* RETURN_NOT_OK(tablet_->metadata()->Flush());
StartPersist(c) ==
  /\ ~crashed
  /\ pc[c] = "start_persist"
  /\ \/ /\ ~tablet_
        /\ Crash
     \/ /\ tablet_
        /\ \E flush \in {"OK", "FlushError"} :
             /\ metaQuorum' = QuorumInMemory(metaQuorum, actual_config[c], flush)
             /\ IF FlushAllowsRunning(flush)
                  THEN /\ flushedQuorum' = IF flush = "OK" THEN actual_config[c] ELSE flushedQuorum
                       /\ Goto(c, "start_lock")
                       /\ UNCHANGED <<ret, locals, config_lock_>>
                  ELSE /\ Return(c, flush)
                       /\ ReleaseConfig(c)
                       /\ UNCHANGED flushedQuorum
        /\ UNCHANGED <<peerVars, internal_state_lock_, ordering_lock, wired, warned, poolVars, opVars>>
        /\ UNCHANGED <<histVars, calls, crashed>>

\* lock_guard<simple_spinlock> lock(internal_state_lock_)
StartAcquireState(c) ==
  /\ ~crashed
  /\ pc[c] = "start_lock"
  /\ internal_state_lock_ = Free
  /\ internal_state_lock_' = c
  /\ Goto(c, "start_cs")
  /\ UNCHANGED <<peerVars, config_lock_, ordering_lock, collabVars, poolVars, opVars>>
  /\ UNCHANGED <<ret, locals, histVars, calls, crashed>>

\* state_ = RUNNING; both guards go out of scope; return Status::OK().
StartSetRunning(c) ==
  /\ ~crashed
  /\ pc[c] = "start_cs"
  /\ state_' = RUNNING
  /\ internal_state_lock_' = Free
  /\ ReleaseConfig(c)
  /\ Return(c, "OK")
  /\ UNCHANGED <<tablet_, log_, consensus_, ordering_lock, collabVars, poolVars, opVars>>
  /\ UNCHANGED <<histVars, calls, crashed>>

(***************************************************************************)
(* TabletPeer::Shutdown                                                    *)
(***************************************************************************)
\* What a pool's Shutdown makes of its accepting flag: the pool accepts no
\* work afterwards, whether or not it was shut down before.
ReopensWhenShutDownTwice(accepting) == ~accepting
StopAccepting(accepting) == FALSE

\* A pool has no unit queued or running.
PrepareDrained == prepq = <<>> /\ \A o \in Ops : phase[o] \notin OnPrepareWorker

ApplyDrained == applyq = <<>> /\ \A o \in Ops : phase[o] # "applying"

\* Status s = consensus_->Shutdown(); if (!s.ok()) LOG(WARNING) << ...
ShutdownConsensus(c) ==
  /\ ~crashed
  /\ pc[c] = "idle"
  /\ calls < MaxCalls
  /\ \/ /\ consensus_ = "null"
        /\ Crash
     \/ /\ consensus_ # "null"
        /\ consensus_' = "shutdown"
        /\ calls' = calls + 1
        /\ \E status \in {"OK", "ConsensusShutdownError"} :
             /\ warned' = (warned \/ status # "OK")
             /\ IF ShutdownProceeds(status)
                  THEN /\ call' = [call EXCEPT ![c] = "Shutdown"]
                       /\ s' = [s EXCEPT ![c] = status]
                       /\ ret' = [ret EXCEPT ![c] = "none"]
                       /\ Goto(c, "shutdown_prepare")
                  ELSE /\ ret' = [ret EXCEPT ![c] = status]
                       /\ UNCHANGED <<pc, call, s>>
        /\ UNCHANGED <<state_, tablet_, log_, lockVars, wired, metaQuorum, flushedQuorum>>
        /\ UNCHANGED <<poolVars, opVars, actual_config, transaction, histVars, crashed>>

\* Shutdown shuts down the prepare pool first (prepare_executor_->Shutdown()
\* comes before apply_executor_->Shutdown()).
ApplyPoolFirst == "apply"
FirstPool == "prepare"

SecondPool == IF FirstPool = "prepare" THEN "apply" ELSE "prepare"

Drained(pool) == IF pool = "prepare" THEN PrepareDrained ELSE ApplyDrained

\* pool->Shutdown() is called: the pool stops accepting work.
Stop(pool) ==
  IF pool = "prepare"
    THEN /\ prepAccepting' = StopAccepting(prepAccepting)
         /\ UNCHANGED applyAccepting
    ELSE /\ applyAccepting' = StopAccepting(applyAccepting)
         /\ UNCHANGED prepAccepting

\* prepare_executor_->Shutdown(): the pool stops accepting work ...
ShutdownPrepareStop(c) ==
  /\ ~crashed
  /\ pc[c] = "shutdown_prepare"
  /\ Stop(FirstPool)
  /\ Goto(c, "shutdown_prepare_wait")
  /\ UNCHANGED <<peerVars, lockVars, collabVars, prepq, applyq, opVars>>
  /\ UNCHANGED <<ret, locals, histVars, calls, crashed>>

\* ... and the call blocks until the accepted work is done; then
\* apply_executor_->Shutdown() stops the apply pool accepting work ...
ShutdownApplyStop(c) ==
  /\ ~crashed
  /\ pc[c] = "shutdown_prepare_wait"
  /\ Drained(FirstPool)
  /\ Stop(SecondPool)
  /\ Goto(c, "shutdown_apply_wait")
  /\ UNCHANGED <<peerVars, lockVars, collabVars, prepq, applyq, opVars>>
  /\ UNCHANGED <<ret, locals, histVars, calls, crashed>>

\* ... and blocks until its accepted work is done; return Status::OK().
ShutdownReturn(c) ==
  /\ ~crashed
  /\ pc[c] = "shutdown_apply_wait"
  /\ Drained(SecondPool)
  /\ Return(c, "OK")
  /\ shutdownDone' = TRUE
  /\ UNCHANGED <<peerVars, lockVars, collabVars, poolVars, opVars>>
  /\ UNCHANGED <<events, orderVars, calls, crashed>>

(***************************************************************************)
(* TabletPeer::SubmitWrite, SubmitAlterSchema, SubmitChangeConfig          *)
(***************************************************************************)
EntryPoint(k) == CASE k = Write -> "SubmitWrite"
                   [] k = AlterSchema -> "SubmitAlterSchema"
                   [] k = ChangeConfig -> "SubmitChangeConfig"

KindOf(entry) == CHOOSE k \in Kinds : EntryPoint(k) = entry

\* Submit* calls that are under way and have not constructed their
\* transaction yet; each will need one of the MaxOps transactions.
AboutToConstruct == {c \in Clients : pc[c] \in {"submit_check", "submit_execute"}}

MayConstruct == nextOp + Cardinality(AboutToConstruct) < MaxOps

\* SubmitWrite / SubmitAlterSchema:
\* lock_guard<simple_spinlock> lock(internal_state_lock_)
SubmitAcquire(c, k) ==
  /\ ~crashed
  /\ k \in {Write, AlterSchema}
  /\ MayConstruct
  /\ Enter(c, EntryPoint(k))
  /\ internal_state_lock_ = Free
  /\ internal_state_lock_' = c
  /\ Goto(c, "submit_check")
  /\ UNCHANGED <<peerVars, config_lock_, ordering_lock, collabVars, poolVars, opVars>>
  /\ UNCHANGED <<actual_config, s, transaction, histVars, crashed>>

\* The block of the state check ends before the transaction is constructed:
\* the state lock is free again when the check is done.
HeldAcrossExecute(c) == c
StateLockAfterCheck(c) == Free

\* if (state_ != RUNNING) return Status::IllegalState(...); the lock guard
\* goes out of scope either way.
SubmitCheck(c) ==
  /\ ~crashed
  /\ pc[c] = "submit_check"
  /\ internal_state_lock_' = StateLockAfterCheck(c)
  /\ IF NotRunning(state_)
       THEN Return(c, "IllegalState")
       ELSE /\ Goto(c, "submit_execute")
            /\ UNCHANGED <<ret, locals>>
  /\ UNCHANGED <<peerVars, config_lock_, ordering_lock, collabVars, poolVars, opVars>>
  /\ UNCHANGED <<histVars, calls, crashed>>

\* new Leader<Kind>Transaction(...) and the first half of Execute(): under
\* the ordering lock the prepare unit is submitted to the prepare pool.  A
\* pool that was shut down takes no unit and Execute returns the error.
ExecuteSubmitPrepare(c, k) ==
  /\ ~crashed
  /\ nextOp < MaxOps
  /\ ordering_lock[OrderingLockOf(k)] = Free
  /\ LET o == nextOp + 1 IN
       /\ nextOp' = o
       /\ kind' = [kind EXCEPT ![o] = k]
       /\ IF prepAccepting
            THEN /\ prepq' = Append(prepq, o)
                 /\ prepSubmitOrder' = Append(prepSubmitOrder, o)
                 /\ phase' = [phase EXCEPT ![o] = "queued"]
                 /\ ordering_lock' = [ordering_lock EXCEPT ![OrderingLockOf(k)] = c]
                 /\ transaction' = [transaction EXCEPT ![c] = o]
                 /\ call' = [call EXCEPT ![c] = EntryPoint(k)]
                 /\ ret' = [ret EXCEPT ![c] = "none"]
                 /\ Goto(c, "execute_replicate")
                 /\ UNCHANGED <<result, actual_config, s>>
            ELSE /\ phase' = [phase EXCEPT ![o] = "rejected"]
                 /\ result' = [result EXCEPT ![o] = "ServiceUnavailable"]
                 /\ Return(c, "ServiceUnavailable")
                 /\ UNCHANGED <<prepq, prepSubmitOrder, ordering_lock>>
  /\ UNCHANGED <<peerVars, internal_state_lock_, config_lock_, collabVars>>
  /\ UNCHANGED <<prepAccepting, applyAccepting, applyq, refused>>
  /\ UNCHANGED <<events, replq, prepareOrder, replicateOrder, returnOrder, shutdownDone, crashed>>

\* SubmitWrite / SubmitAlterSchema past the state check.
SubmitExecute(c) ==
  /\ pc[c] = "submit_execute"
  /\ ExecuteSubmitPrepare(c, KindOf(call[c]))
  /\ UNCHANGED calls

\* SubmitChangeConfig constructs and executes the transaction right away.
SubmitChangeConfig(c) ==
  /\ pc[c] = "idle"
  /\ MayConstruct
  /\ calls < MaxCalls
  /\ calls' = calls + 1
  /\ ExecuteSubmitPrepare(c, ChangeConfig)

\* The second half of Execute(): still under the ordering lock the
\* transaction is submitted to the replication module, then the lock is
\* released.  A replication module that was shut down admits nothing.
ExecuteSubmitReplicate(c) ==
  /\ ~crashed
  /\ pc[c] = "execute_replicate"
  /\ LET o == transaction[c]
         l == OrderingLockOf(kind[o]) IN
       \/ /\ consensus_ = "null"
          /\ Crash
       \/ /\ consensus_ = "shutdown"
          /\ refused' = refused \cup {o}
          /\ ordering_lock' = [ordering_lock EXCEPT ![l] = Free]
          /\ Return(c, "ReplicateSubmitError")
          /\ UNCHANGED <<peerVars, internal_state_lock_, config_lock_, collabVars, poolVars>>
          /\ UNCHANGED <<nextOp, kind, phase, result, histVars, calls, crashed>>
       \/ /\ consensus_ \notin {"null", "shutdown"}
          /\ replq' = Append(replq, o)
          /\ ordering_lock' = [ordering_lock EXCEPT ![l] = Free]
          /\ Goto(c, "submit_return")
          /\ UNCHANGED <<peerVars, internal_state_lock_, config_lock_, collabVars, poolVars>>
          /\ UNCHANGED <<opVars, ret, locals, calls, crashed>>
          /\ UNCHANGED <<events, prepSubmitOrder, prepareOrder, replicateOrder, returnOrder, shutdownDone>>

\* return transaction->Execute();
SubmitReturn(c) ==
  /\ ~crashed
  /\ pc[c] = "submit_return"
  /\ returnOrder' = Append(returnOrder, transaction[c])
  /\ Return(c, "OK")
  /\ UNCHANGED <<peerVars, lockVars, collabVars, poolVars, opVars, calls, crashed>>
  /\ UNCHANGED <<events, prepSubmitOrder, replq, prepareOrder, replicateOrder, shutdownDone>>

(***************************************************************************)
(* The transaction pipeline: prepare on the prepare pool, replicate in the *)
(* replication module, apply on the apply pool.                            *)
(***************************************************************************)
\* A transaction reaching a terminal outcome drops the configuration lock
\* if it holds it (change-config transactions hold it while they execute).
ReleaseConfigOf(o) ==
  config_lock_' = IF config_lock_ = Txn(o) THEN Free ELSE config_lock_

Log(o, e) == events' = [events EXCEPT ![o] = Append(@, e)]

\* Where a transaction goes when its prepare phase ends.
ContinuesAfterPrepareFailure(ok) == "prepared"
AfterPrepare(ok) == IF ok THEN "prepared" ELSE "aborted"

\* Where a transaction goes when the replication module has answered; the
\* apply unit of a committed transaction needs the apply pool to take it.
AfterReplicate(committed, accepting) ==
  IF ~committed THEN "aborted"
  ELSE IF accepting THEN "applyQueued" ELSE "orphaned"

\* The phase in which a transaction may enter the replicate phase.
ReplicatesUnprepared(ph) == ph \in {"preparing", "prepared"}
MayReplicate(ph) == ph = "prepared"

\* A free worker of the prepare pool takes the unit at the head of the queue.
PrepareTake(o) ==
  /\ ~crashed
  /\ prepq # <<>>
  /\ o = Head(prepq)
  /\ Cardinality({p \in Ops : phase[p] \in OnPrepareWorker}) < PrepareThreads
  /\ prepq' = Tail(prepq)
  /\ phase' = [phase EXCEPT ![o] = "taken"]
  /\ UNCHANGED <<peerVars, lockVars, collabVars, prepAccepting, applyAccepting, applyq>>
  /\ UNCHANGED <<nextOp, kind, result, refused, pc, ret, locals, histVars, calls, crashed>>

\* The worker starts running the prepare phase of the unit it took.  A
\* change-config transaction first takes the configuration lock, and keeps
\* it until it is done.
PrepareBegin(o) ==
  /\ ~crashed
  /\ phase[o] = "taken"
  /\ IF kind[o] = ChangeConfig
       THEN /\ config_lock_ = Free
            /\ config_lock_' = Txn(o)
       ELSE UNCHANGED config_lock_
  /\ phase' = [phase EXCEPT ![o] = "preparing"]
  /\ prepareOrder' = Append(prepareOrder, o)
  /\ Log(o, "prepare")
  /\ UNCHANGED <<peerVars, internal_state_lock_, ordering_lock, collabVars, poolVars>>
  /\ UNCHANGED <<nextOp, kind, result, refused, pc, ret, locals, calls, crashed>>
  /\ UNCHANGED <<prepSubmitOrder, replq, replicateOrder, returnOrder, shutdownDone>>

\* The prepare phase ends: on success the transaction waits for the
\* replication module, on failure it aborts.
PrepareEnd(o) ==
  /\ ~crashed
  /\ phase[o] = "preparing"
  /\ \E ok \in BOOLEAN :
       /\ phase' = [phase EXCEPT ![o] = AfterPrepare(ok)]
       /\ IF ok
            THEN /\ Log(o, "prepared")
                 /\ UNCHANGED result
            ELSE /\ Log(o, "prepare_failed")
                 /\ result' = [result EXCEPT ![o] = "PrepareFailed"]
       /\ IF AfterPrepare(ok) = "aborted"
            THEN ReleaseConfigOf(o)
            ELSE UNCHANGED config_lock_
  /\ UNCHANGED <<peerVars, internal_state_lock_, ordering_lock, collabVars, poolVars>>
  /\ UNCHANGED <<nextOp, kind, refused, pc, ret, locals, orderVars, shutdownDone, calls, crashed>>

\* Transactions admitted before o whose replicate phase may still begin.
AdmittedAhead(o) ==
  {p \in Ops : Before(p, o, replq) /\ phase[p] \in {"queued", "taken", "preparing", "prepared"}}

\* The replication module starts replicating a prepared transaction; it
\* takes the admitted transactions in the order they were admitted.
ReplicateBegin(o) ==
  /\ ~crashed
  /\ MayReplicate(phase[o])
  /\ InSeq(o, replq)
  /\ ~InSeq(o, replicateOrder)
  /\ AdmittedAhead(o) = {}
  /\ phase' = [phase EXCEPT ![o] = "replicating"]
  /\ replicateOrder' = Append(replicateOrder, o)
  /\ Log(o, "replicate")
  /\ UNCHANGED <<peerVars, lockVars, collabVars, poolVars>>
  /\ UNCHANGED <<nextOp, kind, result, refused, pc, ret, locals, calls, crashed>>
  /\ UNCHANGED <<prepSubmitOrder, replq, prepareOrder, returnOrder, shutdownDone>>

\* A prepared transaction the replication module refused to admit is
\* aborted: it was not replicated.
ReplicateRefused(o) ==
  /\ ~crashed
  /\ phase[o] = "prepared"
  /\ o \in refused
  /\ phase' = [phase EXCEPT ![o] = "aborted"]
  /\ result' = [result EXCEPT ![o] = "ReplicateFailed"]
  /\ Log(o, "replicate_failed")
  /\ ReleaseConfigOf(o)
  /\ UNCHANGED <<peerVars, internal_state_lock_, ordering_lock, collabVars, poolVars>>
  /\ UNCHANGED <<nextOp, kind, refused, pc, ret, locals, orderVars, shutdownDone, calls, crashed>>

\* The replication module answers.  Committed: the apply unit is submitted
\* to the apply pool (a pool that was shut down takes no unit, and the
\* transaction is left without an outcome).  Failed: the transaction aborts.
ReplicateEnd(o) ==
  /\ ~crashed
  /\ phase[o] = "replicating"
  /\ \E committed \in BOOLEAN :
       LET next == AfterReplicate(committed, applyAccepting) IN
         /\ phase' = [phase EXCEPT ![o] = next]
         /\ IF committed
              THEN UNCHANGED result
              ELSE result' = [result EXCEPT ![o] = "ReplicateFailed"]
         /\ events' = [events EXCEPT ![o] =
              @ \o <<IF committed THEN "committed" ELSE "replicate_failed">>
                \o (IF next = "applyQueued" THEN <<"apply_scheduled">> ELSE <<>>)]
         /\ applyq' = IF next = "applyQueued" THEN Append(applyq, o) ELSE applyq
         /\ IF next = "aborted"
              THEN ReleaseConfigOf(o)
              ELSE UNCHANGED config_lock_
  /\ UNCHANGED <<peerVars, internal_state_lock_, ordering_lock, collabVars>>
  /\ UNCHANGED <<prepAccepting, prepq, applyAccepting>>
  /\ UNCHANGED <<nextOp, kind, refused, pc, ret, locals, orderVars, shutdownDone, calls, crashed>>

\* A free worker of the apply pool takes the head of the queue and runs it.
ApplyBegin(o) ==
  /\ ~crashed
  /\ applyq # <<>>
  /\ o = Head(applyq)
  /\ Cardinality({p \in Ops : phase[p] = "applying"}) < NCpus
  /\ applyq' = Tail(applyq)
  /\ phase' = [phase EXCEPT ![o] = "applying"]
  /\ Log(o, "apply")
  /\ UNCHANGED <<peerVars, lockVars, collabVars, prepAccepting, prepq, applyAccepting>>
  /\ UNCHANGED <<nextOp, kind, result, refused, pc, ret, locals, orderVars, shutdownDone, calls, crashed>>

\* The apply phase ends; an apply failure is reported through the result
\* slot and the transaction is complete either way.
ApplyEnd(o) ==
  /\ ~crashed
  /\ phase[o] = "applying"
  /\ phase' = [phase EXCEPT ![o] = "completed"]
  /\ \E status \in {"OK", "ApplyFailed"} : result' = [result EXCEPT ![o] = status]
  /\ Log(o, "applied")
  /\ ReleaseConfigOf(o)
  /\ UNCHANGED <<peerVars, internal_state_lock_, ordering_lock, collabVars, poolVars>>
  /\ UNCHANGED <<nextOp, kind, refused, pc, ret, locals, orderVars, shutdownDone, calls, crashed>>

(***************************************************************************)
(* Specification                                                           *)
(***************************************************************************)
Next ==
  \/ \E c \in Clients : InitAcquire(c)
  \/ \E c \in Clients : InitAttach(c, TRUE, TRUE)
  \/ \E c \in Clients : InitConsensus(c)
  \/ \E c \in Clients : StartAcquireConfig(c)
  \/ \E c \in Clients : StartConsensus(c)
  \/ \E c \in Clients : StartPersist(c)
  \/ \E c \in Clients : StartAcquireState(c)
  \/ \E c \in Clients : StartSetRunning(c)
  \/ \E c \in Clients : ShutdownConsensus(c)
  \/ \E c \in Clients : ShutdownPrepareStop(c)
  \/ \E c \in Clients : ShutdownApplyStop(c)
  \/ \E c \in Clients : ShutdownReturn(c)
  \/ \E c \in Clients, k \in Kinds : SubmitAcquire(c, k)
  \/ \E c \in Clients : SubmitCheck(c)
  \/ \E c \in Clients : SubmitExecute(c)
  \/ \E c \in Clients : SubmitChangeConfig(c)
  \/ \E c \in Clients : ExecuteSubmitReplicate(c)
  \/ \E c \in Clients : SubmitReturn(c)
  \/ \E o \in Ops : PrepareTake(o)
  \/ \E o \in Ops : PrepareBegin(o)
  \/ \E o \in Ops : PrepareEnd(o)
  \/ \E o \in Ops : ReplicateBegin(o)
  \/ \E o \in Ops : ReplicateRefused(o)
  \/ \E o \in Ops : ReplicateEnd(o)
  \/ \E o \in Ops : ApplyBegin(o)
  \/ \E o \in Ops : ApplyEnd(o)

\* The callers keep Init's precondition: the tablet and the log they pass
\* are not null.
Spec == Init /\ [][Next]_vars

\* The callers may break Init's precondition and pass a null tablet or a
\* null log.
NextNullHandles ==
  \/ Next
  \/ \E c \in Clients, tablet, log \in BOOLEAN : InitAttach(c, tablet, log)

SpecNullHandles == Init /\ [][NextNullHandles]_vars

\* A thread that is inside a call goes on running it, a pool worker that
\* can take or run a unit does so, and the replication module answers.
\* Nothing makes a client begin a new call.
Fairness ==
  /\ \A c \in Clients :
       /\ WF_vars(InitAttach(c, TRUE, TRUE))
       /\ WF_vars(InitConsensus(c))
       /\ WF_vars(StartConsensus(c))
       /\ WF_vars(StartPersist(c))
       /\ WF_vars(StartAcquireState(c))
       /\ WF_vars(StartSetRunning(c))
       /\ WF_vars(ShutdownPrepareStop(c))
       /\ WF_vars(ShutdownApplyStop(c))
       /\ WF_vars(ShutdownReturn(c))
       /\ WF_vars(SubmitCheck(c))
       /\ WF_vars(SubmitExecute(c))
       /\ WF_vars(ExecuteSubmitReplicate(c))
       /\ WF_vars(SubmitReturn(c))
  /\ \A o \in Ops :
       /\ WF_vars(PrepareTake(o))
       /\ WF_vars(PrepareBegin(o))
       /\ WF_vars(PrepareEnd(o))
       /\ WF_vars(ReplicateBegin(o))
       /\ WF_vars(ReplicateRefused(o))
       /\ WF_vars(ReplicateEnd(o))
       /\ WF_vars(ApplyBegin(o))
       /\ WF_vars(ApplyEnd(o))

FairSpec == Spec /\ Fairness

TypeOK ==
  /\ state_ \in TabletStates
  /\ consensus_ \in {"null", "created", "initialized", "started", "shutdown"}
  /\ internal_state_lock_ \in {Free} \cup Clients
  /\ config_lock_ \in {Free} \cup Clients \cup {Txn(o) : o \in Ops}
  /\ \A l \in OrderingLocks : ordering_lock[l] \in {Free} \cup Clients
  /\ nextOp \in 0..MaxOps
  /\ \A o \in Ops : phase[o] = "none" <=> o > nextOp

(***************************************************************************)
(* Properties                                                              *)
(***************************************************************************)
InSubmitCheck(c) == pc[c] = "submit_check"

\* The transactions, queues and orders are as they were.
NothingSubmitted ==
  /\ UNCHANGED <<nextOp, kind, phase, prepq, prepSubmitOrder, replq>>

\* C1: when SubmitWrite or SubmitAlterSchema makes its state check in a
\* state other than RUNNING, the call returns IllegalState, no transaction
\* is constructed and nothing is submitted to the prepare pool; the check is
\* made by the holder of the state lock.
C1_SubmitRejectedUnlessRunning ==
  /\ [](\A c \in Clients : InSubmitCheck(c) => internal_state_lock_ = c)
  /\ [][\A c \in Clients :
          (InSubmitCheck(c) /\ ~InSubmitCheck(c)' /\ state_ # RUNNING)
            => /\ ret'[c] = "IllegalState"
               /\ pc'[c] = "idle"
               /\ NothingSubmitted]_vars

\* A SubmitWrite / SubmitAlterSchema was rejected on a peer that is not
\* running, and no transaction exists.
C1_Witness ==
  \E c \in Clients : ret[c] = "IllegalState" /\ state_ = CONFIGURING /\ nextOp = 0

\* C2: while the state is not RUNNING no change-config transaction is
\* constructed (SubmitChangeConfig fails with an illegal-state error).
C2_ChangeConfigRejectedUnlessRunning ==
  [][state_ # RUNNING
       => \A o \in Ops : kind'[o] = ChangeConfig => kind[o] = ChangeConfig]_vars

InStartAfterFlush(c) == pc[c] \in {"start_lock", "start_cs"}

\* C3: the state is RUNNING only after a successful flush; a Start that is
\* about to set RUNNING has stored and flushed the effective configuration
\* consensus returned to it; a Start whose flush fails returns the error and
\* leaves the state as it was (CONFIGURING stays CONFIGURING).
C3_RunningOnlyAfterFlush ==
  /\ [](state_ = RUNNING => flushedQuorum # "none")
  /\ [](\A c \in Clients : InStartAfterFlush(c)
          => /\ actual_config[c] \in Configs
             /\ metaQuorum = actual_config[c]
             /\ flushedQuorum = actual_config[c])
  /\ [][\A c \in Clients :
          (pc[c] = "start_persist" /\ pc'[c] = "idle" /\ ~crashed')
            => /\ ret'[c] = "FlushError"
               /\ state_' = state_
               /\ flushedQuorum' = flushedQuorum]_vars

\* One Start failed in its flush and left the peer CONFIGURING.
C3_Witness ==
  \E c \in Clients :
    ret[c] = "FlushError" /\ state_ = CONFIGURING /\ flushedQuorum = "none" /\ metaQuorum # "none"

\* a was submitted to the prepare pool before b.
SubmittedBefore(a, b) == Before(a, b, prepSubmitOrder)

ReachedReplicate(o) == InSeq(o, replicateOrder)

\* C4: of two transactions of any kinds that both reach the replicate
\* phase, the one submitted first is handed to the replication module
\* first, and its replicate phase begins first.
C4_ReplicateInSubmissionOrder ==
  \A a, b \in Ops :
    (SubmittedBefore(a, b) /\ ReachedReplicate(a) /\ ReachedReplicate(b))
      => Before(a, b, replq) /\ Before(a, b, replicateOrder)

\* Two transactions of different kinds have both reached the replicate
\* phase, one of them a change-config.
C4_Witness ==
  \E a, b \in Ops :
    /\ SubmittedBefore(a, b)
    /\ ReachedReplicate(a) /\ ReachedReplicate(b)
    /\ kind[a] # kind[b]
    /\ ChangeConfig \in {kind[a], kind[b]}

\* The transaction came in through a Submit* that checked for RUNNING.
AcceptedWhenRunning(o) == kind[o] \in {Write, AlterSchema}

\* C5 as stated: for transactions a RUNNING peer accepted, prepare phases
\* begin in the order in which the Submit* calls return.
C5_PrepareInReturnOrder ==
  \A a, b \in Ops :
    (/\ AcceptedWhenRunning(a) /\ AcceptedWhenRunning(b)
     /\ InSeq(a, prepareOrder) /\ InSeq(b, prepareOrder)
     /\ Before(a, b, returnOrder))
      => Before(a, b, prepareOrder)

\* C5 amended: prepare phases begin in the order in which the Submit* calls
\* submitted their prepare units to the prepare pool.
C5_PrepareInSubmissionOrder ==
  \A a, b \in Ops :
    (InSeq(a, prepareOrder) /\ InSeq(b, prepareOrder) /\ SubmittedBefore(a, b))
      => Before(a, b, prepareOrder)

\* Two concurrent Submit* calls returned in the order opposite to the one
\* in which their prepare phases began.
C5_Witness ==
  \E a, b \in Ops :
    /\ AcceptedWhenRunning(a) /\ AcceptedWhenRunning(b)
    /\ SubmittedBefore(a, b)
    /\ Before(a, b, prepareOrder)
    /\ Before(b, a, returnOrder)

\* Start is between taking the configuration lock and returning.
InStartCriticalSection(c) ==
  pc[c] \in {"start_consensus", "start_persist", "start_lock", "start_cs"}

\* A change-config transaction is executing: its prepare phase has begun
\* and it has not reached an outcome.
Executing(o) ==
  kind[o] = ChangeConfig /\ phase[o] \in {"preparing", "prepared", "replicating", "applyQueued", "applying"}

\* C6: no change-config transaction executes while a Start call is in its
\* critical section, and the other way round.
C6_StartExcludesChangeConfig ==
  \A c \in Clients, o \in Ops : ~(InStartCriticalSection(c) /\ Executing(o))

\* A change-config transaction was submitted and its prepare unit is kept
\* waiting by a Start call that is under way.
C6_Witness ==
  \E c \in Clients, o \in Ops :
    /\ InStartCriticalSection(c)
    /\ kind[o] = ChangeConfig
    /\ phase[o] = "taken"

InShutdown(c) == pc[c] \in {"shutdown_prepare", "shutdown_prepare_wait", "shutdown_apply_wait"}

\* C7: a Shutdown call never returns the replication module's error and
\* never ends early on it: once the warning is logged the call goes on to
\* shut down both pools, and when Shutdown has returned both pools have
\* stopped and are drained.
C7_ShutdownReleasesPools ==
  /\ \A c \in Clients : ret[c] # "ConsensusShutdownError"
  /\ warned => (shutdownDone \/ \E c \in Clients : InShutdown(c))
  /\ shutdownDone => /\ ~prepAccepting /\ PrepareDrained
                     /\ ~applyAccepting /\ ApplyDrained

\* The only Shutdown call made has returned OK although the replication
\* module's Shutdown failed, after draining a pool that had work.
C7_Witness ==
  /\ warned
  /\ shutdownDone
  /\ \A c \in Clients : ~InShutdown(c)
  /\ \E c \in Clients : ret[c] = "OK" /\ call[c] = "none"
  /\ \E o \in Ops : phase[o] \in Terminal

\* A SubmitWrite / SubmitAlterSchema call has passed its RUNNING check and
\* still has a unit of work to hand over.
PassedRunningCheck(c) ==
  /\ call[c] \in {"SubmitWrite", "SubmitAlterSchema"}
  /\ pc[c] = "submit_execute"

\* C8 as stated: Shutdown does not return while a Submit* call that passed
\* the RUNNING check has not handed over its units, nor while a transaction
\* accepted that way still has a unit to be scheduled or run; and no such
\* transaction is ever turned away by a pool that was shut down.
C8_ShutdownDrainsAcceptedOperations ==
  /\ shutdownDone =>
       /\ \A c \in Clients : ~PassedRunningCheck(c)
       /\ \A o \in Ops : AcceptedWhenRunning(o) => phase[o] \notin InFlight
  /\ \A o \in Ops : AcceptedWhenRunning(o) => phase[o] \notin {"rejected", "orphaned"}

\* The events a transaction has gone through do not include e.
Never(o, e) == ~InSeq(e, events[o])

\* The failed transactions are aborted and went no further: one whose
\* prepare failed has the prepare failure in its result slot and never
\* replicated nor applied; one whose replicate failed has the replicate
\* failure in its result slot and never had an apply unit scheduled or run.
AbortedWithoutLaterPhases ==
  \A o \in Ops :
    /\ InSeq("prepare_failed", events[o]) =>
         /\ phase[o] = "aborted"
         /\ result[o] = "PrepareFailed"
         /\ events[o] = <<"prepare", "prepare_failed">>
         /\ ~InSeq(o, replicateOrder)
         /\ ~InSeq(o, applyq)
    /\ InSeq("replicate_failed", events[o]) =>
         /\ phase[o] = "aborted"
         /\ result[o] = "ReplicateFailed"
         /\ events[o][Len(events[o])] = "replicate_failed"
         /\ Never(o, "apply_scheduled") /\ Never(o, "apply")
         /\ ~InSeq(o, applyq)

\* A step that aborts a transaction.
Aborts(o) == phase[o] # "aborted" /\ phase'[o] = "aborted"

\* The step that aborts one transaction leaves every other transaction,
\* and the queues of the pools and of the replication module, as they were.
LeavesOthersUnaffected ==
  \A o \in Ops : Aborts(o) =>
    /\ \A p \in Ops \ {o} : /\ phase'[p] = phase[p]
                            /\ result'[p] = result[p]
                            /\ events'[p] = events[p]
    /\ UNCHANGED <<prepq, applyq, replq>>

\* C9: after every step, a transaction whose prepare failed is aborted and
\* never replicates nor applies, and one whose replicate failed is aborted
\* with the replicate failure in its result slot and never has an apply
\* unit scheduled; the step that aborts a transaction changes no other
\* transaction.
C9_FailureAbortsWithoutLaterPhases ==
  [][AbortedWithoutLaterPhases' /\ LeavesOthersUnaffected]_vars

\* Prepare succeeded and replicate failed for one transaction, which is
\* aborted, while another one later went all the way through.
C9_Witness ==
  \E o, p \in Ops :
    /\ o # p
    /\ events[o] = <<"prepare", "prepared", "replicate", "replicate_failed">>
    /\ phase[o] = "aborted"
    /\ result[o] = "ReplicateFailed"
    /\ Before(o, p, replicateOrder)
    /\ phase[p] = "completed"

SuccessPath ==
  <<"prepare", "prepared", "replicate", "committed", "apply_scheduled", "apply", "applied">>

\* e occurs in the events of o, and f occurs before it.
PrecededBy(o, e, f) == InSeq(e, events[o]) => Before(f, e, events[o])

\* C10: no phase of a transaction begins twice; its replicate begins only
\* after its prepare succeeded and its apply only after replicate reported
\* it committed; a completed transaction went through prepare, replicate
\* and apply once each, in that order.
C10_PhasesOnceInOrder ==
  \A o \in Ops :
    /\ \A e \in {"prepare", "replicate", "apply"} : Occurrences(e, events[o]) <= 1
    /\ Occurrences(o, prepareOrder) <= 1 /\ Occurrences(o, replicateOrder) <= 1
    /\ PrecededBy(o, "prepared", "prepare")
    /\ PrecededBy(o, "replicate", "prepared")
    /\ PrecededBy(o, "committed", "replicate")
    /\ PrecededBy(o, "apply", "committed")
    /\ phase[o] = "completed" => events[o] = SuccessPath

\* A transaction completed successfully.
C10_Witness ==
  \E o \in Ops : phase[o] = "completed" /\ result[o] = "OK" /\ events[o] = SuccessPath

\* An Init call is past its critical section with a null tablet or log.
InitWithNullHandle(c) ==
  /\ call[c] = "Init"
  /\ pc[c] = "init_consensus"
  /\ ~tablet_ \/ ~log_

\* C11 as stated: when the first Init call on a peer was given a null log
\* or a null tablet and has died on the failed precondition, the state is
\* still BOOTSTRAPPING and no handle is attached.
C11_NullHandleInitLeavesBootstrapping ==
  (crashed /\ calls = 1 /\ \E c \in Clients : InitWithNullHandle(c)) =>
    /\ state_ = BOOTSTRAPPING
    /\ ~tablet_ /\ ~log_
    /\ consensus_ = "null"

\* The place of a lifecycle state in BOOTSTRAPPING -> CONFIGURING ->
\* RUNNING -> SHUTDOWN.
Rank(st) == CASE st = BOOTSTRAPPING -> 0
              [] st = CONFIGURING -> 1
              [] st = RUNNING -> 2
              [] st = SHUTDOWN -> 3

\* C12 as stated: no step moves the lifecycle state backwards (a step into
\* SHUTDOWN is allowed from any state), and a step that enters RUNNING
\* leaves CONFIGURING.
C12_LifecycleMovesForward ==
  [][/\ Rank(state_) <= Rank(state_')
     /\ (state_ # RUNNING /\ state_' = RUNNING) => state_ = CONFIGURING]_vars

\* C13 as stated: once a Shutdown call has returned, the lifecycle state is
\* SHUTDOWN (and, shutdownDone never being reset, it is SHUTDOWN from then
\* on).
C13_ShutdownIsTerminal == shutdownDone => state_ = SHUTDOWN

\* The peer is as a Shutdown call that returned left it.
ShutDown ==
  /\ shutdownDone
  /\ consensus_ = "shutdown"
  /\ ~prepAccepting /\ ~applyAccepting

\* Thread c takes a step of a Shutdown call.
ShutdownStep(c) ==
  /\ pc'[c] # pc[c]
  /\ call[c] = "Shutdown" \/ call'[c] = "Shutdown"

Accepted(o) == AcceptedWhenRunning(o) /\ InSeq(o, returnOrder)

\* C15 as stated: with threads, pool workers and the replication module
\* all making progress, every transaction a Submit* call of a RUNNING peer
\* accepted eventually is completed or aborted.
C15_AcceptedEventuallyTerminal ==
  \A o \in Ops : Accepted(o) ~> (phase[o] \in Terminal)

\* Thread c's Init call returns the error of consensus Init.
InitFailsOnConsensus(c) ==
  pc[c] = "init_consensus" /\ ret'[c] = "ConsensusInitError"

\* Thread c made every call so far, one after the other.
OnlyCaller(c) == \A d \in Clients \ {c} : pc[d] = "idle" /\ ret[d] = "none"

\* C16: the step on which Init returns the error of consensus Init leaves
\* the lifecycle state, the handles and the wiring of the tablet as they
\* are (SetConsensus is not called) and the state is not BOOTSTRAPPING;
\* with no other thread at work the state is CONFIGURING, so that the
\* Submit* state check rejects, and on a fresh peer the tablet is wired to
\* nothing.
C16_ConsensusInitFailureLeavesConfiguring ==
  [][\A c \in Clients : InitFailsOnConsensus(c) =>
       /\ UNCHANGED <<peerVars, wired>>
       /\ state_' # BOOTSTRAPPING
       /\ OnlyCaller(c) => (state_' = CONFIGURING /\ NotRunning(state_'))
       /\ calls = 1 => ~wired']_vars

\* Init on a fresh peer has returned the error of consensus Init, and a
\* SubmitWrite that followed was rejected.
C16_Witness ==
  \E c \in Clients :
    /\ OnlyCaller(c)
    /\ calls = 2
    /\ state_ = CONFIGURING
    /\ consensus_ = "created"
    /\ ~wired
    /\ ret[c] = "IllegalState"

\* C17: a Shutdown call that is about to shut down a pool has had the
\* answer of consensus Shutdown; one that has shut down the apply pool
\* has shut down the prepare pool before and has seen it drained; and the
\* apply pool is never shut down while the prepare pool accepts work or
\* has work queued or running.
C17_ShutdownStepsInOrder ==
  /\ \A c \in Clients :
       /\ InShutdown(c) => s[c] # "none"
       /\ pc[c] \in {"shutdown_prepare_wait", "shutdown_apply_wait"} => ~prepAccepting
       /\ pc[c] = "shutdown_apply_wait" => (~applyAccepting /\ PrepareDrained)
  /\ ~applyAccepting => (~prepAccepting /\ PrepareDrained)

\* A Shutdown call has shut down the prepare pool and waits for a unit the
\* pool still has, the apply pool still accepting work.
C17_Witness ==
  \E c \in Clients :
    /\ pc[c] = "shutdown_prepare_wait"
    /\ ~prepAccepting
    /\ ~PrepareDrained
    /\ applyAccepting

\* Thread c's Start call returns the error of consensus Start.
StartFailsOnConsensus(c) ==
  pc[c] = "start_consensus" /\ ret'[c] = "ConsensusStartError"

\* C18: the step on which Start returns the error of consensus Start
\* leaves the lifecycle state, the handles, the quorum of the tablet
\* metadata and what was flushed as they are, and releases the
\* configuration lock the call held.
C18_ConsensusStartFailureChangesNothing ==
  [][\A c \in Clients : StartFailsOnConsensus(c) =>
       /\ UNCHANGED <<peerVars, collabVars, poolVars, opVars, internal_state_lock_>>
       /\ config_lock_ = c
       /\ config_lock_' = Free]_vars

\* Start, called after Init, has returned the error of consensus Start: the
\* peer is CONFIGURING, no quorum is set or flushed, the lock is free.
C18_Witness ==
  \E c \in Clients :
    /\ OnlyCaller(c)
    /\ calls = 2
    /\ ret[c] = "ConsensusStartError"
    /\ state_ = CONFIGURING
    /\ metaQuorum = "none" /\ flushedQuorum = "none"
    /\ config_lock_ = Free

\* Thread c's Start call returns the error of the metadata Flush.
StartFailsOnFlush(c) ==
  pc[c] = "start_persist" /\ ret'[c] = "FlushError"

\* C19: the step on which Start returns the error of the metadata Flush
\* has set the quorum of the in-memory metadata to the effective
\* configuration consensus returned to this call, leaves the lifecycle
\* state and what was flushed as they are (a peer that was CONFIGURING
\* stays CONFIGURING) and releases the configuration lock; and every Start
\* call that comes to set the quorum has had an effective configuration
\* from consensus Start in that same call.
C19_FlushFailureOverwritesMetadata ==
  [][/\ \A c \in Clients : StartFailsOnFlush(c) =>
          /\ metaQuorum' = actual_config[c]
          /\ metaQuorum' \in Configs
          /\ UNCHANGED <<peerVars, flushedQuorum>>
          /\ state_ = CONFIGURING => state_' = CONFIGURING
          /\ config_lock_' = Free
     /\ \A c \in Clients : pc'[c] = "start_persist" => actual_config'[c] \in Configs]_vars

\* Init, then a Start that failed on the flush, then a second Start under
\* way: the peer is CONFIGURING, the metadata holds the effective
\* configuration of the failed Start, nothing is flushed, and the second
\* call is about to call consensus Start again.
C19_Witness ==
  \E c \in Clients :
    /\ OnlyCaller(c)
    /\ calls = 3
    /\ state_ = CONFIGURING
    /\ metaQuorum \in Configs
    /\ flushedQuorum = "none"
    /\ pc[c] = "start_consensus"

\* Where a thread is while it holds the state lock: inside the block of
\* Init, of Start or of the Submit* state check.
StateLockBlocks == {"init_cs", "start_cs", "submit_check"}

\* The holder of the state lock can take its next step, which releases it.
HolderCanRun(d) ==
  ENABLED (InitAttach(d, TRUE, TRUE) \/ StartSetRunning(d) \/ SubmitCheck(d))

\* C20: the state lock is a leaf lock.  Its holder is inside one of the
\* three blocks that read or write the state and the handles, has no
\* transaction and holds no ordering lock, and holds the configuration
\* lock only as the Start call that took it first; its next step needs no
\* lock and releases the state lock.  A thread that waits for the state
\* lock while holding the configuration lock therefore waits for a thread
\* that waits for nothing: there is no cyclic wait.
C20_StateLockIsLeaf ==
  \A d \in Clients :
    internal_state_lock_ = d =>
      /\ pc[d] \in StateLockBlocks
      /\ transaction[d] = 0
      /\ \A l \in OrderingLocks : ordering_lock[l] # d
      /\ config_lock_ = d => pc[d] = "start_cs"
      /\ crashed \/ HolderCanRun(d)

\* A Start call holding the configuration lock waits for the state lock,
\* which a Submit* call holds for its state check.
C20_Witness ==
  \E c, d \in Clients :
    /\ c # d
    /\ pc[c] = "start_lock"
    /\ config_lock_ = c
    /\ internal_state_lock_ = d
    /\ pc[d] = "submit_check"

====
